---- MODULE Spec2Model ----
(***************************************************************************)
(* Watermark-driven batch ingestion: src/src/etl/ingest_api.py (main and   *)
(* its helpers), src/src/etl/quality.py (the quality gate) and             *)
(* src/src/etl/db.py (the connection, autocommit off).                     *)
(*                                                                         *)
(* Time is counted in ticks, TicksPerSecond ticks to the second, so that   *)
(* a timestamp can carry a fraction of a second.  A nullable value is      *)
(* NULL (the empty tuple) or Some(v) (a one-element tuple).                *)
(*                                                                         *)
(* A database statement either succeeds, fails on the server (the open     *)
(* transaction becomes aborted: every later statement on the connection    *)
(* fails until a rollback, which main() never issues), or fails because    *)
(* the connection is lost.  A failed commit has not taken effect.          *)
(* log_event (print of a JSON line) is taken not to raise.                 *)
(***************************************************************************)
EXTENDS Integers, Sequences, FiniteSets, TLC

\* ---------------------------------------------------------------- bounds
NumApps == 2          \* application ids the source can hand out
MaxTime == 2          \* submitted_at ranges over 1..MaxTime ticks
TicksPerSecond == 3   \* resolution of a timestamp below the second
MaxFetch == 2         \* longest record list one fetch returns
MaxRuns == 2          \* runs of main() in one behaviour
MaxTicks == 1         \* times the wall clock advances
MaxFetchConc == 1     \* longest record list of a fetch when two runs interleave

\* ------------------------------------------------------- program constants
FutureGuardSeconds == 300

NULL == <<>>
Some(v) == <<v>>
Val(o) == o[1]

Procs == {"p1", "p2"}
SeqProcs == {"p1"}
source_name == "mock_api.loan_applications"

AppIds == 1..NumApps
SubmittedAts == 1..MaxTime
LoanAmounts == {0, 1000}
RunIds == 1..MaxRuns

FutureGuard == FutureGuardSeconds * TicksPerSecond
\* The clock starts where a record submitted at MaxTime lies just beyond the
\* five-minute guard and one submitted at MaxTime - 1 lies exactly on it.
NowInit == (MaxTime - 1) - FutureGuard

\* A raw record of the source (one JSON object of the response).
SourceRecords ==
    [application_id : AppIds,
     applicant_id   : {Some("ap1")},
     submitted_at   : SubmittedAts,
     loan_amount    : LoanAmounts,
     purpose        : {Some("auto")},
     state          : {Some("NY")},
     annual_income  : {50000}]

SeqsUpTo(S, n) == UNION {[1..k -> S] : k \in 0..n}

NoExc == [type |-> "none", detail |-> <<>>]
Exc(t) == [type |-> t, detail |-> <<>>]

VARIABLES
    ingestion_state,  \* metadata.ingestion_state, committed rows
    pipeline_runs,    \* metadata.pipeline_runs, committed rows
    staging,          \* staging.loan_applications, committed rows
    bronze,           \* archive objects written, one per run_id
    now,              \* wall clock, in ticks
    next_run_id,      \* the next fresh run identifier (uuid4)
    pc,               \* position of each process in main()
    run_id,           \* main: run_id
    conn,             \* main: conn (transaction status, uncommitted rows)
    watermark,        \* main: watermark
    since,            \* fetch_api_records: params["since"]
    records,          \* main: records
    row_count,        \* main: row_count
    quality,          \* main: quality (NULL until the gate has been evaluated)
    exc,              \* main: e, the exception caught at line 210
    raised,           \* the exception main() propagated to its caller
    start,            \* history: stored watermark and staging at run start
    fail_step,        \* history: the step whose failure aborted the run
    nfinish,          \* history: finish_pipeline_run calls that committed
    secondary         \* history: what finish_pipeline_run raised in the handler

dbvars == <<ingestion_state, pipeline_runs, staging>>
locals == <<run_id, watermark, since, records, row_count, quality>>
hist   == <<start, fail_step, nfinish, secondary>>
vars == <<ingestion_state, pipeline_runs, staging, bronze, now, next_run_id,
          pc, run_id, conn, watermark, since, records, row_count, quality,
          exc, raised, start, fail_step, nfinish, secondary>>

\* ------------------------------------------------------------- connection
\* psycopg connection with autocommit off: idle (no transaction), intrans
\* (a transaction is open; started is the time NOW() reports inside it),
\* inerror (the transaction is aborted), bad (connection lost), closed.
NewConn == [status |-> "idle", started |-> NULL, pending |-> <<>>]
Usable(c) == c.status \in {"idle", "intrans"}
Begin(c, t) ==
    IF c.status = "idle" THEN [c EXCEPT !.status = "intrans", !.started = Some(t)]
    ELSE c
AfterCommit(c) == [status |-> "idle", started |-> NULL, pending |-> <<>>]
AfterFault(c, f) ==
    [status  |-> IF f = "server_error" THEN "inerror" ELSE "bad",
     started |-> NULL, pending |-> <<>>]
FaultExc(f) ==
    IF f = "server_error" THEN Exc("DatabaseError") ELSE Exc("OperationalError")
UnusableExc(c) ==
    IF c.status = "inerror" THEN Exc("InFailedSqlTransaction")
    ELSE Exc("OperationalError")
Faults == {"server_error", "conn_lost"}

\* ------------------------------------------------------------ watermark
\* get_watermark: the row's last_ingested_at, None when there is no row.
get_watermark(state) ==
    IF \E r \in state : r.source_name = source_name
    THEN (CHOOSE r \in state : r.source_name = source_name).last_ingested_at
    ELSE NULL

\* Mutant: ON CONFLICT DO UPDATE, the existing row gets the null watermark.
ensure_ingestion_state_reset(state) ==
    {r \in state : r.source_name # source_name}
        \cup {[source_name |-> source_name, last_ingested_at |-> NULL]}

\* INSERT ... VALUES (source, NULL) ON CONFLICT (source_name) DO NOTHING.
ensure_ingestion_state(state) ==
    IF \E r \in state : r.source_name = source_name THEN state
    ELSE state \cup {[source_name |-> source_name, last_ingested_at |-> NULL]}

\* Mutant: the UPDATE keeps the later of the stored and the new timestamp.
set_watermark_greatest(state, new_watermark) ==
    {IF r.source_name = source_name
        THEN [r EXCEPT !.last_ingested_at =
                 IF @ # NULL /\ Val(@) > new_watermark THEN @
                 ELSE Some(new_watermark)]
        ELSE r : r \in state}

set_watermark(state, new_watermark) ==
    {IF r.source_name = source_name
        THEN [r EXCEPT !.last_ingested_at = Some(new_watermark)]
        ELSE r : r \in state}

\* strftime("%Y-%m-%dT%H:%M:%SZ") keeps whole seconds only.
format_since(wm) ==
    IF wm = NULL THEN NULL
    ELSE Some(Val(wm) - (Val(wm) % TicksPerSecond))

\* The source returns only records submitted after `since`
\* (any records at all when `since` is absent).
SourceReturns(s) ==
    {recs \in SeqsUpTo(SourceRecords, MaxFetch) :
        \A i \in 1..Len(recs) : s = NULL \/ recs[i].submitted_at > Val(s)}

Max(S) == CHOOSE x \in S : \A y \in S : y <= x

\* Mutant: the last record's timestamp instead of the largest.
compute_new_watermark_last(recs) ==
    IF recs = <<>> THEN NULL
    ELSE Some(recs[Len(recs)].submitted_at)

compute_new_watermark(recs) ==
    IF recs = <<>> THEN NULL
    ELSE Some(Max({recs[i].submitted_at : i \in 1..Len(recs)}))

\* -------------------------------------------------------------- staging
\* The tuple upsert_staging builds from one raw record (lines 121-131).
staging_row(r) ==
    [application_id |-> r.application_id,
     applicant_id   |-> r.applicant_id,
     submitted_at   |-> Some(r.submitted_at),
     loan_amount    |-> Some(r.loan_amount),
     purpose        |-> r.purpose,
     state          |-> r.state,
     annual_income  |-> Some(r.annual_income)]

staging_rows(recs) == [i \in 1..Len(recs) |-> staging_row(recs[i])]

\* Mutant: a plain INSERT, no conflict target.
upsert_row_insert_only(rel, row) == rel \cup {row}

\* Mutant: the statement replaces the table by the row (a transient batch
\* table rather than a cumulative one).
upsert_row_replace(rel, row) == {row}

\* Mutant: ON CONFLICT DO NOTHING, the row already there is kept.
upsert_row_do_nothing(rel, row) ==
    IF \E r \in rel : r.application_id = row.application_id THEN rel
    ELSE rel \cup {row}

\* INSERT ... ON CONFLICT (application_id) DO UPDATE, one row.
upsert_row(rel, row) ==
    {r \in rel : r.application_id # row.application_id} \cup {row}

\* executemany: the statement once per row, in order.
RECURSIVE upsert_rows(_, _)
upsert_rows(rel, rows) ==
    IF rows = <<>> THEN rel
    ELSE upsert_rows(upsert_row(rel, Head(rows)), Tail(rows))

\* ---------------------------------------------------------- quality gate
CheckNames == <<"null_required_fields", "loan_amount_positive",
                "annual_income_positive", "submitted_at_future_guard">>

\* Mutant: the future guard selects a row that is exactly five minutes ahead.
CheckFails_guard_inclusive(name, r, t) ==
    CASE name = "null_required_fields" ->
            \/ r.applicant_id = NULL \/ r.submitted_at = NULL
            \/ r.loan_amount = NULL  \/ r.purpose = NULL
            \/ r.state = NULL        \/ r.annual_income = NULL
      [] name = "loan_amount_positive" ->
            r.loan_amount # NULL /\ Val(r.loan_amount) <= 0
      [] name = "annual_income_positive" ->
            r.annual_income # NULL /\ Val(r.annual_income) <= 0
      [] name = "submitted_at_future_guard" ->
            r.submitted_at # NULL /\ Val(r.submitted_at) >= t + FutureGuard

\* The WHERE clause of each check; a comparison with NULL selects no row.
CheckFails(name, r, t) ==
    CASE name = "null_required_fields" ->
            \/ r.applicant_id = NULL \/ r.submitted_at = NULL
            \/ r.loan_amount = NULL  \/ r.purpose = NULL
            \/ r.state = NULL        \/ r.annual_income = NULL
      [] name = "loan_amount_positive" ->
            r.loan_amount # NULL /\ Val(r.loan_amount) <= 0
      [] name = "annual_income_positive" ->
            r.annual_income # NULL /\ Val(r.annual_income) <= 0
      [] name = "submitted_at_future_guard" ->
            r.submitted_at # NULL /\ Val(r.submitted_at) > t + FutureGuard

FailingRows(name, rel, t) == Cardinality({r \in rel : CheckFails(name, r, t)})

\* Mutant: the loop stops at the first check that has failing rows.
RECURSIVE CollectFailures_first(_, _, _)
CollectFailures_first(names, rel, t) ==
    IF names = <<>> THEN <<>>
    ELSE IF FailingRows(Head(names), rel, t) > 0
            THEN <<[name |-> Head(names), count |-> FailingRows(Head(names), rel, t)]>>
            ELSE CollectFailures_first(Tail(names), rel, t)

\* Lines 53-58: every check in list order, an entry when its count is > 0.
RECURSIVE CollectFailures(_, _, _)
CollectFailures(names, rel, t) ==
    IF names = <<>> THEN <<>>
    ELSE (IF FailingRows(Head(names), rel, t) > 0
            THEN <<[name |-> Head(names), count |-> FailingRows(Head(names), rel, t)]>>
            ELSE <<>>)
         \o CollectFailures(Tail(names), rel, t)

run_staging_checks(rel, t) ==
    [passed   |-> Len(CollectFailures(CheckNames, rel, t)) = 0,
     failures |-> CollectFailures(CheckNames, rel, t)]


\* ------------------------------------------------------------- run rows
create_pipeline_run(runs, id) ==
    runs \cup {[run_id |-> id, status |-> "running",
                row_count |-> NULL, error_message |-> NoExc]}

finish_pipeline_run(runs, id, st, rc, msg) ==
    {IF r.run_id = id
        THEN [r EXCEPT !.status = st, !.row_count = rc, !.error_message = msg]
        ELSE r : r \in runs}

RunRow(id) == CHOOSE r \in pipeline_runs : r.run_id = id
HasRunRow(id) == \E r \in pipeline_runs : r.run_id = id

\* ------------------------------------------------------------------ main
Closed == [status |-> "closed", started |-> NULL, pending |-> <<>>]

\* What a commit on p's connection makes of staging: the rows the open
\* transaction has upserted so far become durable.
CommitStaging(p) == upsert_rows(staging, conn[p].pending)

\* What a statement on p's connection reads from staging.
View(p) == upsert_rows(staging, conn[p].pending)

\* NOW() inside a transaction is the time the transaction began.
TxNow(p) == IF conn[p].status = "intrans" THEN Val(conn[p].started) ELSE now

\* An exception e leaves the try block at `step` (line 210 catches it).
Raise(p, step, e, c) ==
    /\ pc' = [pc EXCEPT ![p] = "handler"]
    /\ exc' = [exc EXCEPT ![p] = e]
    /\ fail_step' = [fail_step EXCEPT ![p] = step]
    /\ conn' = [conn EXCEPT ![p] = c]

Goto(p, label) == pc' = [pc EXCEPT ![p] = label]

Init ==
    /\ ingestion_state = {}
    /\ pipeline_runs = {}
    /\ staging = {}
    /\ bronze = {}
    /\ now = NowInit
    /\ next_run_id = 1
    /\ pc = [p \in Procs |-> "idle"]
    /\ run_id = [p \in Procs |-> 0]
    /\ conn = [p \in Procs |-> Closed]
    /\ watermark = [p \in Procs |-> NULL]
    /\ since = [p \in Procs |-> NULL]
    /\ records = [p \in Procs |-> <<>>]
    /\ row_count = [p \in Procs |-> NULL]
    /\ quality = [p \in Procs |-> NULL]
    /\ exc = [p \in Procs |-> NoExc]
    /\ raised = [p \in Procs |-> NoExc]
    /\ start = [p \in Procs |-> [wm |-> NULL, staging |-> {}, now |-> NowInit]]
    /\ fail_step = [p \in Procs |-> "none"]
    /\ nfinish = [p \in Procs |-> 0]
    /\ secondary = [p \in Procs |-> NoExc]

\* The wall clock advances while a run waits for the source to answer (the
\* one step of a run that takes long).
Tick ==
    /\ now < NowInit + MaxTicks
    /\ \E p \in Procs : pc[p] = "fetch"
    /\ now' = now + 1
    /\ UNCHANGED <<dbvars, bronze, next_run_id, pc, conn, locals, exc, raised, hist>>

\* main, lines 166-177: a fresh run_id and a fresh connection.
StartRun(p) ==
    /\ pc[p] \in {"idle", "done"}
    /\ next_run_id <= MaxRuns
    /\ run_id' = [run_id EXCEPT ![p] = next_run_id]
    /\ next_run_id' = next_run_id + 1
    /\ conn' = [conn EXCEPT ![p] = NewConn]
    /\ watermark' = [watermark EXCEPT ![p] = NULL]
    /\ since' = [since EXCEPT ![p] = NULL]
    /\ records' = [records EXCEPT ![p] = <<>>]
    /\ row_count' = [row_count EXCEPT ![p] = NULL]
    /\ quality' = [quality EXCEPT ![p] = NULL]
    /\ exc' = [exc EXCEPT ![p] = NoExc]
    /\ raised' = [raised EXCEPT ![p] = NoExc]
    /\ start' = [start EXCEPT ![p] = [wm |-> get_watermark(ingestion_state),
                                      staging |-> staging, now |-> now]]
    /\ fail_step' = [fail_step EXCEPT ![p] = "none"]
    /\ nfinish' = [nfinish EXCEPT ![p] = 0]
    /\ secondary' = [secondary EXCEPT ![p] = NoExc]
    /\ Goto(p, "create_run")
    /\ UNCHANGED <<dbvars, bronze, now>>

\* main, line 179.
CreatePipelineRun(p) ==
    /\ pc[p] = "create_run"
    /\ \/ /\ pipeline_runs' = create_pipeline_run(pipeline_runs, run_id[p])
          /\ staging' = CommitStaging(p)
          /\ conn' = [conn EXCEPT ![p] = AfterCommit(conn[p])]
          /\ Goto(p, "ensure_state")
          /\ UNCHANGED <<ingestion_state, exc, fail_step>>
       \/ \E f \in Faults :
          /\ Raise(p, "create_run", FaultExc(f), AfterFault(conn[p], f))
          /\ UNCHANGED dbvars
    /\ UNCHANGED <<bronze, now, next_run_id, locals, raised, start, nfinish, secondary>>

\* main, line 180.
EnsureIngestionState(p) ==
    /\ pc[p] = "ensure_state"
    /\ \/ /\ ingestion_state' = ensure_ingestion_state(ingestion_state)
          /\ staging' = CommitStaging(p)
          /\ conn' = [conn EXCEPT ![p] = AfterCommit(conn[p])]
          /\ Goto(p, "get_watermark")
          /\ UNCHANGED <<pipeline_runs, exc, fail_step>>
       \/ \E f \in Faults :
          /\ Raise(p, "ensure_state", FaultExc(f), AfterFault(conn[p], f))
          /\ UNCHANGED dbvars
    /\ UNCHANGED <<bronze, now, next_run_id, locals, raised, start, nfinish, secondary>>

\* main, lines 182-183: a SELECT, which opens a transaction and leaves it open.
GetWatermark(p) ==
    /\ pc[p] = "get_watermark"
    /\ \/ /\ watermark' = [watermark EXCEPT ![p] = get_watermark(ingestion_state)]
          /\ conn' = [conn EXCEPT ![p] = Begin(conn[p], now)]
          /\ Goto(p, "fetch")
          /\ UNCHANGED <<exc, fail_step>>
       \/ \E f \in Faults :
          /\ Raise(p, "get_watermark", FaultExc(f), AfterFault(conn[p], f))
          /\ UNCHANGED watermark
    /\ UNCHANGED <<dbvars, bronze, now, next_run_id, run_id, since, records,
                   row_count, quality, raised, start, nfinish, secondary>>

\* main, lines 185-186, and fetch_api_records.
FetchApiRecords(p) ==
    /\ pc[p] = "fetch"
    /\ since' = [since EXCEPT ![p] = format_since(watermark[p])]
    /\ \/ /\ \E recs \in SourceReturns(format_since(watermark[p])) :
                records' = [records EXCEPT ![p] = recs]
          /\ Goto(p, "bronze")
          /\ UNCHANGED <<exc, fail_step, conn>>
       \/ /\ Raise(p, "fetch", Exc("HTTPError"), conn[p])
          /\ UNCHANGED records
    /\ UNCHANGED <<dbvars, bronze, now, next_run_id, run_id, watermark,
                   row_count, quality, raised, start, nfinish, secondary>>

\* Mutant: the last record never reaches the file.
bronze_lines_truncated(recs) == SubSeq(recs, 1, Len(recs) - 1)

\* write_bronze_jsonl: one line per record, json.dumps of the record.
bronze_lines(recs) == recs

\* main, lines 188-189.  A failed write leaves no object or a truncated one.
WriteBronze(p) ==
    /\ pc[p] = "bronze"
    /\ \/ /\ bronze' = bronze \cup {[run_id |-> run_id[p],
                                     lines |-> bronze_lines(records[p])]}
          /\ Goto(p, "upsert")
          /\ UNCHANGED <<exc, fail_step, conn>>
       \/ /\ \/ bronze' = bronze
             \/ \E k \in 0..Len(records[p]) :
                   bronze' = bronze \cup {[run_id |-> run_id[p],
                                           lines |-> SubSeq(records[p], 1, k)]}
          /\ Raise(p, "bronze", Exc("OSError"), conn[p])
    /\ UNCHANGED <<dbvars, now, next_run_id, locals, raised, start, nfinish, secondary>>

\* main, lines 191-192, and upsert_staging.
UpsertStaging(p) ==
    /\ pc[p] = "upsert"
    /\ \/ /\ records[p] = <<>>                       \* line 116: no statement
          /\ row_count' = [row_count EXCEPT ![p] = Some(0)]
          /\ Goto(p, "gate")
          /\ UNCHANGED <<staging, exc, fail_step, conn>>
       \/ /\ records[p] # <<>>                       \* executemany, commit
          /\ staging' = upsert_rows(CommitStaging(p), staging_rows(records[p]))
          /\ conn' = [conn EXCEPT ![p] = AfterCommit(conn[p])]
          /\ row_count' = [row_count EXCEPT ![p] = Some(Len(records[p]))]
          /\ Goto(p, "gate")
          /\ UNCHANGED <<exc, fail_step>>
       \/ /\ records[p] # <<>>                       \* the server rejects a row,
          /\ \E f \in Faults :                       \* or the connection drops
                Raise(p, "upsert", FaultExc(f), AfterFault(conn[p], f))
          /\ UNCHANGED <<staging, row_count>>
       \/ /\ records[p] # <<>>                       \* lines 120-132 raise
          /\ Raise(p, "upsert", Exc("ValueError"), conn[p])
          /\ UNCHANGED <<staging, row_count>>
       \/ /\ records[p] # <<>>      \* row k+1 cannot be adapted: rows 1..k
          /\ \E k \in 0..(Len(records[p]) - 1) :     \* were executed
                Raise(p, "upsert", Exc("ProgrammingError"),
                      [Begin(conn[p], now) EXCEPT
                          !.pending = @ \o SubSeq(staging_rows(records[p]), 1, k)])
          /\ UNCHANGED <<staging, row_count>>
    /\ UNCHANGED <<ingestion_state, pipeline_runs, bronze, now, next_run_id,
                   run_id, watermark, since, records, quality, raised,
                   start, nfinish, secondary>>

\* Mutant: the checks look at the rows of this run only.
gate_relation_delta(p) ==
    {staging_row(records[p][i]) : i \in 1..Len(records[p])}

\* Mutant: the checks read staging as the run found it, before its merge.
gate_relation_premerge(p) == start[p].staging

\* The relation the checks select from: all of staging.loan_applications.
gate_relation(p) == View(p)

\* Mutant: a failed gate does not stop the run.
gate_failed_never(q) == FALSE

\* main, line 196.
gate_failed(q) == ~q.passed

\* Mutant: the watermark is written before the verdict is acted on.
QualityGate_advancing(p) ==
    /\ pc[p] = "gate"
    /\ \/ LET q == run_staging_checks(gate_relation(p), TxNow(p)) IN
          /\ quality' = [quality EXCEPT ![p] = Some(q)]
          /\ ingestion_state' =
                IF records[p] = <<>> THEN ingestion_state
                ELSE set_watermark(ingestion_state,
                                   Val(compute_new_watermark(records[p])))
          /\ IF gate_failed(q)
               THEN Raise(p, "gate",
                          [type |-> "RuntimeError", detail |-> q.failures],
                          Begin(conn[p], now))
               ELSE /\ Goto(p, "advance")
                    /\ conn' = [conn EXCEPT ![p] = Begin(conn[p], now)]
                    /\ UNCHANGED <<exc, fail_step>>
       \/ \E f \in Faults :
          /\ Raise(p, "gate", FaultExc(f), AfterFault(conn[p], f))
          /\ UNCHANGED <<quality, ingestion_state>>
    /\ UNCHANGED <<pipeline_runs, staging, bronze, now, next_run_id, run_id,
                   watermark, since, records, row_count, raised, start, nfinish,
                   secondary>>

\* main, lines 195-200: evaluate the gate, raise when it did not pass.
QualityGate(p) ==
    /\ pc[p] = "gate"
    /\ \/ LET q == run_staging_checks(gate_relation(p), TxNow(p)) IN
          /\ quality' = [quality EXCEPT ![p] = Some(q)]
          /\ IF gate_failed(q)
               THEN Raise(p, "gate",
                          [type |-> "RuntimeError", detail |-> q.failures],
                          Begin(conn[p], now))
               ELSE /\ Goto(p, "advance")
                    /\ conn' = [conn EXCEPT ![p] = Begin(conn[p], now)]
                    /\ UNCHANGED <<exc, fail_step>>
       \/ \E f \in Faults :
          /\ Raise(p, "gate", FaultExc(f), AfterFault(conn[p], f))
          /\ UNCHANGED quality
    /\ UNCHANGED <<dbvars, bronze, now, next_run_id, run_id, watermark, since,
                   records, row_count, raised, start, nfinish, secondary>>

\* Mutant: the UPDATE is durable although set_watermark raised.
AdvanceWatermarkDurable(p) ==
    /\ pc[p] = "advance"
    /\ LET new_wm == compute_new_watermark(records[p]) IN
       \/ /\ new_wm = NULL
          /\ Goto(p, "finish")
          /\ UNCHANGED <<ingestion_state, staging, exc, fail_step, conn>>
       \/ /\ new_wm # NULL
          /\ ingestion_state' = set_watermark(ingestion_state, Val(new_wm))
          /\ staging' = CommitStaging(p)
          /\ conn' = [conn EXCEPT ![p] = AfterCommit(conn[p])]
          /\ Goto(p, "finish")
          /\ UNCHANGED <<exc, fail_step>>
       \/ /\ new_wm # NULL
          /\ \E f \in Faults :
                Raise(p, "set_watermark", FaultExc(f), AfterFault(conn[p], f))
          /\ ingestion_state' = set_watermark(ingestion_state, Val(new_wm))
          /\ UNCHANGED staging
    /\ UNCHANGED <<pipeline_runs, bronze, now, next_run_id, locals, raised,
                   start, nfinish, secondary>>

\* main, lines 202-205.
AdvanceWatermark(p) ==
    /\ pc[p] = "advance"
    /\ LET new_wm == compute_new_watermark(records[p]) IN
       \/ /\ new_wm = NULL
          /\ Goto(p, "finish")
          /\ UNCHANGED <<ingestion_state, staging, exc, fail_step, conn>>
       \/ /\ new_wm # NULL
          /\ ingestion_state' = set_watermark(ingestion_state, Val(new_wm))
          /\ staging' = CommitStaging(p)
          /\ conn' = [conn EXCEPT ![p] = AfterCommit(conn[p])]
          /\ Goto(p, "finish")
          /\ UNCHANGED <<exc, fail_step>>
       \/ /\ new_wm # NULL
          /\ \E f \in Faults :
                Raise(p, "set_watermark", FaultExc(f), AfterFault(conn[p], f))
          /\ UNCHANGED <<ingestion_state, staging>>
    /\ UNCHANGED <<pipeline_runs, bronze, now, next_run_id, locals, raised,
                   start, nfinish, secondary>>

\* main, lines 207-208, then line 218.
FinishSuccess(p) ==
    /\ pc[p] = "finish"
    /\ \/ /\ pipeline_runs' = finish_pipeline_run(pipeline_runs, run_id[p],
                                                  "success", row_count[p], NoExc)
          /\ staging' = CommitStaging(p)
          /\ nfinish' = [nfinish EXCEPT ![p] = @ + 1]
          /\ conn' = [conn EXCEPT ![p] = Closed]
          /\ Goto(p, "done")
          /\ UNCHANGED <<exc, fail_step>>
       \/ \E f \in Faults :
          /\ Raise(p, "finish", FaultExc(f), AfterFault(conn[p], f))
          /\ UNCHANGED <<pipeline_runs, staging, nfinish>>
    /\ UNCHANGED <<ingestion_state, bronze, now, next_run_id, locals, raised,
                   start, secondary>>

\* What finish_pipeline_run can raise inside the handler.
SecondaryFailures(c) ==
    IF Usable(c) THEN {FaultExc(f) : f \in Faults} ELSE {UnusableExc(c)}

\* Mutant: the secondary failure escapes the handler.
propagated_secondary(e, e2) == e2

\* main, lines 213-216: the secondary failure e2 is passed over and the bare
\* `raise` re-raises e.
propagated(e, e2) == e

\* main, lines 210-218: record the failure if that is possible, swallow a
\* failure to do so, re-raise the exception caught, close the connection.
HandleException(p) ==
    /\ pc[p] = "handler"
    /\ \/ /\ Usable(conn[p])
          /\ pipeline_runs' = finish_pipeline_run(pipeline_runs, run_id[p],
                                                  "failed", NULL, exc[p])
          /\ staging' = CommitStaging(p)
          /\ nfinish' = [nfinish EXCEPT ![p] = @ + 1]
          /\ raised' = [raised EXCEPT ![p] = exc[p]]
          /\ UNCHANGED secondary
       \/ \E e2 \in SecondaryFailures(conn[p]) :
          /\ secondary' = [secondary EXCEPT ![p] = e2]
          /\ raised' = [raised EXCEPT ![p] = propagated(exc[p], e2)]
          /\ UNCHANGED <<pipeline_runs, staging, nfinish>>
    /\ conn' = [conn EXCEPT ![p] = Closed]
    /\ Goto(p, "done")
    /\ UNCHANGED <<ingestion_state, bronze, now, next_run_id, locals, exc,
                   start, fail_step>>

Step(p) ==
    \/ StartRun(p)
    \/ CreatePipelineRun(p)
    \/ EnsureIngestionState(p)
    \/ GetWatermark(p)
    \/ FetchApiRecords(p)
    \/ WriteBronze(p)
    \/ UpsertStaging(p)
    \/ QualityGate(p)
    \/ AdvanceWatermark(p)
    \/ FinishSuccess(p)
    \/ HandleException(p)

\* One orchestrator at a time (the single-run assumption of the design).
Next == Tick \/ \E p \in SeqProcs : Step(p)

Spec == Init /\ [][Next]_vars

\* ------------------------------------------- one run over any staging
\* staging.loan_applications is a table other loads write too.  Its rows, as
\* the columns the gate reads allow them: a row that passes every check
\* (submitted exactly on the five-minute guard of the initial clock), the
\* same with one column NULL, with a non-positive amount or income, with a
\* timestamp beyond the guard, and one that fails all four checks at once.
NullableColumns == {"applicant_id", "submitted_at", "loan_amount", "purpose",
                    "state", "annual_income"}

GoodRow(i) ==
    [application_id |-> i,
     applicant_id   |-> Some("ap0"),
     submitted_at   |-> Some(MaxTime - 1),
     loan_amount    |-> Some(500),
     purpose        |-> Some("home"),
     state          |-> Some("CA"),
     annual_income  |-> Some(40000)]

AllBadRow(i) ==
    [GoodRow(i) EXCEPT !.purpose = NULL, !.loan_amount = Some(0),
                       !.annual_income = Some(-1), !.submitted_at = Some(MaxTime)]

StagedRows(i) ==
    {GoodRow(i), AllBadRow(i)}
    \cup {[GoodRow(i) EXCEPT ![c] = NULL] : c \in NullableColumns}
    \cup {[GoodRow(i) EXCEPT !.loan_amount = Some(a)] : a \in {0, -1}}
    \cup {[GoodRow(i) EXCEPT !.annual_income = Some(0)],
          [GoodRow(i) EXCEPT !.submitted_at = Some(MaxTime)]}

\* Relations over these rows, application_id being the key.
AnyStaging ==
    UNION {{{f[i] : i \in I} : f \in {g \in [I -> UNION {StagedRows(i) : i \in I}] :
                                        \A i \in I : g[i].application_id = i}} :
           I \in SUBSET AppIds}

InitAnyStaging ==
    /\ ingestion_state = {}
    /\ pipeline_runs = {}
    /\ staging \in AnyStaging
    /\ bronze = {}
    /\ now = NowInit
    /\ next_run_id = 1
    /\ pc = [p \in Procs |-> "idle"]
    /\ run_id = [p \in Procs |-> 0]
    /\ conn = [p \in Procs |-> Closed]
    /\ watermark = [p \in Procs |-> NULL]
    /\ since = [p \in Procs |-> NULL]
    /\ records = [p \in Procs |-> <<>>]
    /\ row_count = [p \in Procs |-> NULL]
    /\ quality = [p \in Procs |-> NULL]
    /\ exc = [p \in Procs |-> NoExc]
    /\ raised = [p \in Procs |-> NoExc]
    /\ start = [p \in Procs |-> [wm |-> NULL, staging |-> staging, now |-> NowInit]]
    /\ fail_step = [p \in Procs |-> "none"]
    /\ nfinish = [p \in Procs |-> 0]
    /\ secondary = [p \in Procs |-> NoExc]

\* The steps of main() other than its start and the fetch.
OtherSteps(p) ==
    \/ CreatePipelineRun(p)
    \/ EnsureIngestionState(p)
    \/ GetWatermark(p)
    \/ WriteBronze(p)
    \/ UpsertStaging(p)
    \/ QualityGate(p)
    \/ AdvanceWatermark(p)
    \/ FinishSuccess(p)
    \/ HandleException(p)

\* One run of main() against such a table.
NextAnyStaging ==
    \/ Tick
    \/ \E p \in SeqProcs :
          \/ pc[p] = "idle" /\ StartRun(p)
          \/ FetchApiRecords(p)
          \/ OtherSteps(p)

SpecAnyStaging == InitAnyStaging /\ [][NextAnyStaging]_vars

\* ------------------------------------------------- a failed run, retried
\* The database as an earlier run of main(), recorded as success, left it:
\* that run fetched nothing or one record the gate let pass.
EarlierFetches ==
    {recs \in SeqsUpTo(SourceRecords, 1) :
        run_staging_checks(upsert_rows({}, staging_rows(recs)), NowInit).passed}

FirstRun == "p1"
RetriedRun == "p2"

InitRetry ==
    /\ \E recs \in EarlierFetches :
          /\ ingestion_state =
                IF recs = <<>> THEN ensure_ingestion_state({})
                ELSE set_watermark(ensure_ingestion_state({}),
                                   Val(compute_new_watermark(recs)))
          /\ staging = upsert_rows({}, staging_rows(recs))
          /\ pipeline_runs =
                finish_pipeline_run(create_pipeline_run({}, 0), 0, "success",
                                    Some(Len(recs)), NoExc)
          /\ bronze = {[run_id |-> 0, lines |-> bronze_lines(recs)]}
    /\ now = NowInit
    /\ next_run_id = 1
    /\ pc = [p \in Procs |-> "idle"]
    /\ run_id = [p \in Procs |-> 0]
    /\ conn = [p \in Procs |-> Closed]
    /\ watermark = [p \in Procs |-> NULL]
    /\ since = [p \in Procs |-> NULL]
    /\ records = [p \in Procs |-> <<>>]
    /\ row_count = [p \in Procs |-> NULL]
    /\ quality = [p \in Procs |-> NULL]
    /\ exc = [p \in Procs |-> NoExc]
    /\ raised = [p \in Procs |-> NoExc]
    /\ start = [p \in Procs |-> [wm |-> get_watermark(ingestion_state),
                                  staging |-> staging, now |-> NowInit]]
    /\ fail_step = [p \in Procs |-> "none"]
    /\ nfinish = [p \in Procs |-> 0]
    /\ secondary = [p \in Procs |-> NoExc]

\* main() raised at the gate or before it.
FailedAtGateOrEarlier(p) ==
    /\ pc[p] = "done"
    /\ fail_step[p] \in {"create_run", "ensure_state", "get_watermark", "fetch",
                         "bronze", "upsert", "gate"}

\* fetch_api_records of p's current run has received an answer.
Fetched(p) ==
    \/ pc[p] \in {"bronze", "upsert", "gate", "advance", "finish"}
    \/ /\ pc[p] \in {"handler", "done"}
       /\ fail_step[p] \notin {"create_run", "ensure_state", "get_watermark", "fetch"}

\* One invocation of main(), and when it has failed at the gate or earlier a
\* second one, to which the source returns what it returned to the first.
NextRetry ==
    \/ Tick
    \/ pc[FirstRun] = "idle" /\ StartRun(FirstRun)
    \/ FetchApiRecords(FirstRun)
    \/ OtherSteps(FirstRun)
    \/ /\ FailedAtGateOrEarlier(FirstRun)
       /\ pc[RetriedRun] = "idle"
       /\ StartRun(RetriedRun)
    \/ /\ FetchApiRecords(RetriedRun)
       /\ (Fetched(FirstRun) /\ Fetched(RetriedRun)')
             => records'[RetriedRun] = records[FirstRun]
    \/ OtherSteps(RetriedRun)

SpecRetry == InitRetry /\ [][NextRetry]_vars

\* ------------------------------------------------ two runs interleaved
\* Two invocations of main() for the same source with nothing to keep them
\* apart: their steps interleave in any order.  Each process runs main()
\* once and is returned at most MaxFetchConc records.
NextConc ==
    \/ Tick
    \/ \E p \in Procs :
          \/ pc[p] = "idle" /\ StartRun(p)
          \/ FetchApiRecords(p) /\ Len(records'[p]) <= MaxFetchConc
          \/ OtherSteps(p)

SpecConc == Init /\ [][NextConc]_vars

\* ================================================================ claims
StoredWatermark == get_watermark(ingestion_state)
Done(p) == pc[p] = "done"
GateEvaluated(p) == quality[p] # NULL
GatePassed(p) == quality[p] # NULL /\ Val(quality[p]).passed
GateReportedFailure(p) == quality[p] # NULL /\ ~Val(quality[p]).passed
FetchedIds(p) == {records[p][i].application_id : i \in 1..Len(records[p])}
Violates(r, t) == \E i \in 1..Len(CheckNames) : CheckFails(CheckNames[i], r, t)

\* C1: in a run whose gate reported passed = false, the stored watermark is,
\* from the gate's verdict to the end of the run, the one the run started with.
C1_GateFailureFreezesWatermark ==
    \A p \in Procs :
        GateReportedFailure(p) => StoredWatermark = start[p].wm

C1_Witness ==
    \E p \in Procs :
        /\ Done(p) /\ GateReportedFailure(p)
        /\ records[p] # <<>>
        /\ start[p].wm # NULL

\* C2 as stated: a violating row in staging before the run makes the gate of
\* that run report failure and leaves the watermark alone, whatever is fetched.
C2_AnyFetchBlocked ==
    \A p \in Procs :
        (Done(p) /\ \E r \in start[p].staging : Violates(r, start[p].now))
            => /\ StoredWatermark = start[p].wm
               /\ GateEvaluated(p) => GateReportedFailure(p)

\* A row of staging at run start that violates a check, still violates it
\* now, and whose application_id no fetched record carries.
KeptViolation(p) ==
    \E r \in start[p].staging :
        /\ Violates(r, start[p].now)
        /\ Violates(r, now)
        /\ r.application_id \notin FetchedIds(p)

\* C2 amended: a violating row that the run's records do not overwrite (and
\* that, for the clock-skew check, is still too far ahead when the run ends)
\* makes the gate report failure and leaves the watermark alone.
C2_KeptViolationBlocks ==
    \A p \in Procs :
        (Done(p) /\ KeptViolation(p))
            => /\ StoredWatermark = start[p].wm
               /\ GateEvaluated(p) => GateReportedFailure(p)

C2_Witness ==
    \E p \in Procs :
        /\ Done(p) /\ KeptViolation(p) /\ GateReportedFailure(p)
        /\ records[p] # <<>>
        /\ \A i \in 1..Len(records[p]) : ~Violates(staging_row(records[p][i]), now)

\* C3 as stated: a run aborted by a failed extraction or a failed store write
\* (create-run, ensure-state, upsert, set-watermark, finish-run) leaves the
\* stored watermark as it was at the start of the run.
C3_AbortKeepsWatermark ==
    \A p \in Procs :
        (Done(p) /\ fail_step[p] \in {"fetch", "create_run", "ensure_state",
                                      "upsert", "set_watermark", "finish"})
            => StoredWatermark = start[p].wm

\* C3 amended: the same for a failure of the extraction, create-run,
\* ensure-state, upsert or set-watermark; a failure of finish-run comes after
\* the watermark has been committed.
C3_AbortBeforeFinishKeepsWatermark ==
    \A p \in Procs :
        (Done(p) /\ fail_step[p] \in {"fetch", "create_run", "ensure_state",
                                      "upsert", "set_watermark"})
            => StoredWatermark = start[p].wm

C3_Witness ==
    \E p \in Procs :
        /\ Done(p) /\ fail_step[p] = "set_watermark"
        /\ GatePassed(p)
        /\ compute_new_watermark(records[p]) # start[p].wm

\* C4: after a run recorded as success that fetched at least one record, the
\* stored watermark is a fetched submitted_at that no fetched one exceeds.
RunSucceeded(p) ==
    /\ Done(p) /\ raised[p] = NoExc
    /\ HasRunRow(run_id[p]) /\ RunRow(run_id[p]).status = "success"

C4_WatermarkIsMaxFetched ==
    \A p \in Procs :
        (RunSucceeded(p) /\ records[p] # <<>>)
            => /\ StoredWatermark # NULL
               /\ \E i \in 1..Len(records[p]) :
                     records[p][i].submitted_at = Val(StoredWatermark)
               /\ \A i \in 1..Len(records[p]) :
                     records[p][i].submitted_at <= Val(StoredWatermark)

C4_Witness ==
    \E p \in Procs :
        /\ RunSucceeded(p) /\ Len(records[p]) = 2
        /\ records[p][1].submitted_at > records[p][2].submitted_at

\* C5 as stated: with one run at a time and a source that returns only
\* records submitted after the `since` it is sent, the stored watermark never
\* decreases.
WatermarkLeq(a, b) == a = NULL \/ (b # NULL /\ Val(a) <= Val(b))

C5_WatermarkNeverDecreases ==
    [][WatermarkLeq(StoredWatermark, StoredWatermark')]_vars

\* C6 as stated: a run whose extraction returned no record (and that met no
\* transport, archive or store fault) is recorded as success with row_count
\* 0 and leaves staging and the watermark as they were.
EmptyFetchNoFault(p) ==
    /\ Done(p) /\ records[p] = <<>>
    /\ \/ fail_step[p] = "none"
       \/ fail_step[p] = "gate" /\ exc[p].type = "RuntimeError"

C6_EmptyFetchIsNoopSuccess ==
    \A p \in Procs :
        EmptyFetchNoFault(p)
            => /\ HasRunRow(run_id[p])
               /\ RunRow(run_id[p]).status = "success"
               /\ RunRow(run_id[p]).row_count = Some(0)
               /\ staging = start[p].staging
               /\ StoredWatermark = start[p].wm

\* C7: when upsert_staging has failed, the archive object of the run exists
\* and holds every fetched record; and as long as a run has no complete
\* archive object, staging is what it was when the run started.
ArchiveComplete(p) ==
    \E b \in bronze : b.run_id = run_id[p] /\ b.lines = records[p]

C7_ArchiveBeforeMerge ==
    \A p \in Procs :
        /\ fail_step[p] = "upsert" => ArchiveComplete(p)
        /\ (pc[p] # "idle" /\ ~ArchiveComplete(p))
              => (staging = start[p].staging /\ conn[p].pending = <<>>)

C7_Witness ==
    \E p \in Procs :
        /\ Done(p) /\ fail_step[p] = "upsert"
        /\ Len(records[p]) = 2
        /\ ArchiveComplete(p)

\* C8 as stated: when a step after run creation fails (extraction, store or
\* gate failure), main() ends with the run's row in status failed, carrying
\* the error text, and the original failure reaches the caller.
C8_FailureIsRecorded ==
    \A p \in Procs :
        (Done(p) /\ fail_step[p] \in {"ensure_state", "get_watermark", "fetch",
                                      "upsert", "gate", "set_watermark", "finish"})
            => /\ HasRunRow(run_id[p])
               /\ RunRow(run_id[p]).status = "failed"
               /\ RunRow(run_id[p]).error_message = exc[p]
               /\ raised[p] = exc[p]

\* C9: when finish_pipeline_run raises inside the handler, main() still
\* propagates the error that left the try block: the transport error of a
\* failed fetch, the RuntimeError carrying the gate's failures, and so on.
C9_OriginalErrorPropagates ==
    \A p \in Procs :
        (Done(p) /\ secondary[p] # NoExc)
            => /\ raised[p] = exc[p]
               /\ raised[p] # NoExc
               /\ fail_step[p] = "fetch" => raised[p].type = "HTTPError"
               /\ GateReportedFailure(p) =>
                     raised[p] = [type |-> "RuntimeError",
                                  detail |-> Val(quality[p]).failures]

C9_Witness ==
    \E p \in Procs :
        /\ Done(p) /\ secondary[p] # NoExc
        /\ secondary[p] # exc[p]
        /\ raised[p] = exc[p]

\* C10 as stated: a run's row is created as running and goes exactly once to
\* a terminal status: when main() has ended, the row is success or failed and
\* one call of finish_pipeline_run has taken effect.
C10_TransitionsExactlyOnce ==
    \A p \in Procs :
        (Done(p) /\ HasRunRow(run_id[p]))
            => /\ RunRow(run_id[p]).status \in {"success", "failed"}
               /\ nfinish[p] = 1

\* upsert_staging has returned in the current run of p.
Upserted(p) == row_count[p] # NULL
NoDuplicateIds(rel) ==
    \A r1, r2 \in rel : r1.application_id = r2.application_id => r1 = r2

\* C11: once upsert_staging has returned, applying it again with the same
\* record sequence leaves staging as it is, and no two rows of staging carry
\* the same application_id.
C11_UpsertIdempotent ==
    \A p \in Procs :
        Upserted(p)
            => /\ upsert_rows(staging, staging_rows(records[p])) = staging
               /\ NoDuplicateIds(staging)

C11_Witness ==
    \E p \in Procs :
        /\ Upserted(p) /\ Len(records[p]) = 2
        /\ records[p][1].application_id = records[p][2].application_id
        /\ records[p][1] # records[p][2]
        /\ \E r \in start[p].staging :
              r.application_id = records[p][1].application_id

\* The gate has just been evaluated in p's run: main() is at line 196 with
\* the verdict, or in the handler with the RuntimeError of line 199.  The
\* transaction the checks ran in is still open, and GateNow is its NOW().
JustEvaluated(p) ==
    /\ quality[p] # NULL
    /\ \/ pc[p] = "advance"
       \/ pc[p] = "handler" /\ fail_step[p] = "gate"
GateNow(p) == Val(conn[p].started)

AllPresent(r) ==
    /\ r.applicant_id # NULL /\ r.submitted_at # NULL /\ r.loan_amount # NULL
    /\ r.purpose # NULL /\ r.state # NULL /\ r.annual_income # NULL
RowPasses(r, t) ==
    /\ AllPresent(r)
    /\ Val(r.loan_amount) > 0
    /\ Val(r.annual_income) > 0
    /\ Val(r.submitted_at) <= t + FutureGuard

C13_MergeThenGateThenWatermark ==
    \A p \in Procs :
        /\ JustEvaluated(p)
              => /\ Upserted(p)
                 /\ conn[p].pending = <<>>
                 /\ staging = upsert_rows(start[p].staging, staging_rows(records[p]))
                 /\ Val(quality[p]) = run_staging_checks(staging, GateNow(p))
        /\ (pc[p] # "idle" /\ ~GateEvaluated(p))
              => StoredWatermark = start[p].wm

C13_Witness ==
    \E p \in Procs :
        /\ JustEvaluated(p) /\ GateReportedFailure(p)
        /\ records[p] # <<>>
        /\ run_staging_checks(start[p].staging, GateNow(p)).passed
        /\ start[p].wm # NULL

LastIndexOf(recs, id) ==
    Max({i \in 1..Len(recs) : recs[i].application_id = id})

\* The row of staging that carries the fields of the raw record rec.
CarriesRecord(r, rec) ==
    /\ r.application_id = rec.application_id
    /\ r.applicant_id = rec.applicant_id
    /\ r.submitted_at = Some(rec.submitted_at)
    /\ r.loan_amount = Some(rec.loan_amount)
    /\ r.purpose = rec.purpose
    /\ r.state = rec.state
    /\ r.annual_income = Some(rec.annual_income)

\* C14: once upsert_staging has returned, staging has for every fetched
\* application_id exactly one row, carrying the fields of the last fetched
\* record with that id; the count returned is the number of records passed;
\* and with no record passed staging is what it was and the count is 0.
C14_LastWriteWins ==
    \A p \in Procs :
        Upserted(p)
            => /\ row_count[p] = Some(Len(records[p]))
               /\ \A id \in FetchedIds(p) :
                     /\ \E r \in staging : r.application_id = id
                     /\ \A r \in staging :
                           r.application_id = id
                              => CarriesRecord(r, records[p][LastIndexOf(records[p], id)])
               /\ records[p] = <<>> => staging = start[p].staging

C14_Witness ==
    \E p \in Procs :
        /\ Upserted(p) /\ Len(records[p]) = 2
        /\ records[p][1].application_id # records[p][2].application_id
        /\ \E r \in start[p].staging :
              /\ r.application_id = records[p][1].application_id
              /\ ~CarriesRecord(r, records[p][1])
        /\ \A r \in start[p].staging :
              r.application_id # records[p][2].application_id

IdsOf(rel) == {r.application_id : r \in rel}

\* C15: no step of any run, successful or failed, takes an application_id
\* out of staging, and at every point of a run the rows staging held at the
\* start of the run under ids the run did not fetch are still there, as they
\* were.
C15_StagingCumulative ==
    [][/\ IdsOf(staging) \subseteq IdsOf(staging')
       /\ \A p \in Procs :
             pc'[p] # "idle"
                => \A r \in start'[p].staging :
                      r.application_id \notin FetchedIds(p)' => r \in staging'
      ]_vars

C15_Witness ==
    \E p \in Procs :
        /\ Done(p) /\ fail_step[p] # "none" /\ Upserted(p)
        /\ records[p] # <<>>
        /\ \E r \in start[p].staging :
              r.application_id \notin FetchedIds(p) /\ r \in staging
        /\ \E id \in FetchedIds(p) : id \notin IdsOf(start[p].staging)

\* C16 as stated: when a run has ended, staging is what it was at the start
\* of the run or that with all of the run's fetched records merged in.
C16_BatchAllOrNothing ==
    \A p \in Procs :
        Done(p)
            => \/ staging = start[p].staging
               \/ staging = upsert_rows(start[p].staging, staging_rows(records[p]))

\* One entry "<name>: <count> failing rows" per check, in the fixed order,
\* for the checks that have failing rows.
Positive(e) == e.count > 0
ExpectedFailures(rel, t) ==
    SelectSeq(
        <<[name  |-> "null_required_fields",
           count |-> Cardinality({r \in rel : ~AllPresent(r)})],
          [name  |-> "loan_amount_positive",
           count |-> Cardinality({r \in rel : r.loan_amount # NULL
                                                /\ Val(r.loan_amount) <= 0})],
          [name  |-> "annual_income_positive",
           count |-> Cardinality({r \in rel : r.annual_income # NULL
                                                /\ Val(r.annual_income) <= 0})],
          [name  |-> "submitted_at_future_guard",
           count |-> Cardinality({r \in rel : r.submitted_at # NULL
                                                /\ Val(r.submitted_at) > t + FutureGuard})]>>,
        Positive)

\* C17: the failures the gate returns are these entries, all of them and in
\* this order; the RuntimeError a failed gate raises carries all of them, and
\* so does the error message of the run's row once the handler has stored it.
C17_AllChecksReported ==
    \A p \in Procs :
        /\ JustEvaluated(p)
              => /\ Val(quality[p]).failures = ExpectedFailures(staging, GateNow(p))
                 /\ pc[p] = "handler"
                       => exc[p] = [type   |-> "RuntimeError",
                                    detail |-> ExpectedFailures(staging, GateNow(p))]
        /\ (Done(p) /\ GateReportedFailure(p) /\ RunRow(run_id[p]).status = "failed")
              => RunRow(run_id[p]).error_message.detail = Val(quality[p]).failures

C17_Witness ==
    \E p \in Procs :
        /\ Done(p) /\ GateReportedFailure(p)
        /\ RunRow(run_id[p]).status = "failed"
        /\ Len(RunRow(run_id[p]).error_message.detail) = 4
        /\ \E i \in 1..4 : RunRow(run_id[p]).error_message.detail[i].count = 2

\* `since` has been sent to the source in p's current run.
SinceSent(p) ==
    pc[p] \notin {"idle", "create_run", "ensure_state", "get_watermark", "fetch"}
    /\ fail_step[p] \notin {"create_run", "ensure_state", "get_watermark"}

\* C18: a run retried after a run that failed at the gate or earlier sends
\* the `since` the failed run sent; and when it is returned the same records
\* and ends as success, staging is the failed run's start relation with
\* those records merged in once, and the stored watermark is the greatest
\* submitted_at among them (the failed run's start watermark if there are
\* none): what one successful run over those records produces.
C18_RetryEqualsSingleRun ==
    /\ (SinceSent(FirstRun) /\ SinceSent(RetriedRun))
          => since[RetriedRun] = since[FirstRun]
    /\ (/\ Fetched(FirstRun) /\ RunSucceeded(RetriedRun)
        /\ records[RetriedRun] = records[FirstRun])
          => /\ staging = upsert_rows(start[FirstRun].staging,
                                      staging_rows(records[FirstRun]))
             /\ StoredWatermark =
                   IF records[FirstRun] = <<>> THEN start[FirstRun].wm
                   ELSE compute_new_watermark(records[FirstRun])

C18_Witness ==
    /\ RunSucceeded(RetriedRun)
    /\ GateReportedFailure(FirstRun)
    /\ records[FirstRun] # <<>>
    /\ since[RetriedRun] # NULL
    /\ staging # start[FirstRun].staging
    /\ StoredWatermark # start[FirstRun].wm

\* set_watermark of p's run has committed.
WatermarkWritten(p) ==
    /\ pc[p] \in {"finish", "done"} /\ fail_step[p] = "none"
    /\ records[p] # <<>>
MaxSubmittedAt(recs) == Max({recs[i].submitted_at : i \in 1..Len(recs)})

\* C19: with two runs interleaved, the set_watermark of a run stores the
\* greatest submitted_at that run fetched, whatever the stored value is and
\* whichever run stored it: nothing compares the two.
C19_LastWriterWins ==
    [][\A p \in Procs :
          (pc[p] = "advance" /\ pc'[p] = "finish" /\ records[p] # <<>>)
             => StoredWatermark' = Some(MaxSubmittedAt(records[p]))
      ]_vars

\* Both runs read the same (absent) watermark and sent the same `since`; q
\* has committed its watermark, and the watermark p stored after that is
\* strictly lower.
C19_Witness ==
    \E p, q \in Procs :
        /\ p # q
        /\ WatermarkWritten(p) /\ WatermarkWritten(q)
        /\ watermark[p] = NULL /\ watermark[q] = NULL
        /\ since[p] = since[q]
        /\ StoredWatermark = Some(MaxSubmittedAt(records[p]))
        /\ MaxSubmittedAt(records[p]) < MaxSubmittedAt(records[q])

RowsOfSource(state) == {r \in state : r.source_name = source_name}

\* C20: a call of ensure_ingestion_state that finds the source's row leaves
\* ingestion_state as it is; one that finds none adds the row with a null
\* watermark; and from the first call on, through every later step and run,
\* ingestion_state holds exactly one row for the source.
C20_EnsureInsertsIfAbsent ==
    [][/\ \A p \in Procs :
             (pc[p] = "ensure_state" /\ pc'[p] = "get_watermark")
                => /\ RowsOfSource(ingestion_state) # {}
                         => ingestion_state' = ingestion_state
                   /\ RowsOfSource(ingestion_state) = {}
                         => ingestion_state' = ingestion_state \cup
                               {[source_name |-> source_name,
                                 last_ingested_at |-> NULL]}
                   /\ Cardinality(RowsOfSource(ingestion_state')) = 1
       /\ Cardinality(RowsOfSource(ingestion_state)) = 1
             => Cardinality(RowsOfSource(ingestion_state')) = 1
       /\ Cardinality(RowsOfSource(ingestion_state')) <= 1
      ]_vars

C20_Witness ==
    \E p \in Procs :
        /\ pc[p] = "get_watermark"
        /\ start[p].wm # NULL
        /\ StoredWatermark = start[p].wm
        /\ Cardinality(ingestion_state) = 1

====
